---- MODULE Spec2Model ----
(***************************************************************************)
(* QMediathekView, src/database.cpp: the Database (the "Store"), its       *)
(* Data snapshots (the "Catalog"), the FullUpdate / PartialUpdate          *)
(* transactions run by a QtConcurrent worker, and the query functions.     *)
(*                                                                         *)
(* std::string is a sequence of character codes, so that case folding,     *)
(* operator< and find() are computed and not assumed.  Data objects live   *)
(* in a heap indexed by pointers, so that sharing between the Database,    *)
(* a transaction and a reader is visible.                                  *)
(***************************************************************************)
EXTENDS Integers, Sequences, FiniteSets, TLC

VARIABLES
    heap,        \* the Data objects behind every DataPtr
    m_data,      \* Database::m_data, the current snapshot (a pointer)
    file,        \* the file at databasePath()
    m_update,    \* Database::m_update: the watched future and its worker
    held,        \* a reader's shared_ptr obtained from Database::show
    log,         \* what the Database did towards its collaborators
    q,           \* the last call of Database::query and what it returned
    life         \* the Database object: alive, in its destructor, or destroyed

vars == <<heap, m_data, file, m_update, held, log, q, life>>

-----------------------------------------------------------------------------
(* Bounds of the model *)

\* update requests issued over a run
MaxRequests == 2
\* records the parser delivers for one request
MaxBatch == 2
\* records of the snapshots that queries are run against
MaxShows == 3
\* the largest id a reader passes to show
MaxId == 1

-----------------------------------------------------------------------------
(* std::string *)

sEmpty == <<>>
sB == <<66>>
sa == <<97>>
sb == <<98>>
sAB == <<65, 66>>
sAb == <<65, 98>>

\* std::tolower in the C locale
to_lower_char(c) == IF c >= 65 /\ c <= 90 THEN c + 32 ELSE c

\* boost::to_lower_copy / boost::to_lower
to_lower_copy(s) == [i \in 1..Len(s) |-> to_lower_char(s[i])]

\* std::string operator<
RECURSIVE StrLess(_, _)
StrLess(a, b) ==
    IF b = <<>> THEN FALSE
    ELSE IF a = <<>> THEN TRUE
    ELSE IF a[1] < b[1] THEN TRUE
    ELSE IF b[1] < a[1] THEN FALSE
    ELSE StrLess(Tail(a), Tail(b))

\* s.find(key) != std::string::npos
Contains(s, key) ==
    \E i \in 0..(Len(s) - Len(key)) : SubSeq(s, i + 1, i + Len(key)) = key

\* std::pair< std::string, std::string > operator<
PairLess(a, b) ==
    \/ StrLess(a[1], b[1])
    \/ (~StrLess(b[1], a[1]) /\ StrLess(a[2], b[2]))

-----------------------------------------------------------------------------
(* Show: the records the parser can deliver *)

Show(ch, to, ti, da, tm, du, u) ==
    [channel |-> ch, topic |-> to, title |-> ti,
     date |-> da, time |-> tm, duration |-> du, url |-> u]

\* p1 and p2 have the same (title, url, channel, topic) and differ in content;
\* p3 and p4 have the same channel, date and time; "B" < "a" in original case
\* and "a" < "b" case-folded.
p1 == Show(sAB, sa, sAb, 1, 1, 2, sa)
p2 == Show(sAB, sa, sAb, 2, 1, 1, sa)
p3 == Show(sB, sB, sb, 1, 2, 1, sa)
p4 == Show(sB, sa, sa, 1, 2, 2, sb)
p5 == Show(sa, sB, sAB, 2, 2, 1, sa)

ShowPool == {p1, p2, p3, p4, p5}

\* a record of an earlier run: the channel and date of p2 and a later time
p6 == Show(sAB, sB, sb, 2, 2, 1, sa)

RECURSIVE SeqsUpTo(_, _)
SeqsUpTo(S, n) ==
    IF n = 0 THEN {<<>>}
    ELSE LET shorter == SeqsUpTo(S, n - 1)
         IN  shorter \cup {Append(s, x) : s \in {t \in shorter : Len(t) = n - 1}, x \in S}

\* the key PartialUpdate compares
ShowKey(show) == <<show.title, show.url, show.channel, show.topic>>

-----------------------------------------------------------------------------
(* Database::Data *)

EmptyData ==
    [shows |-> <<>>,
     showsByChannel |-> <<>>, showsByTopic |-> <<>>, showsByTitle |-> <<>>,
     channels |-> <<>>, topics |-> <<>>]

\* a comparator that puts the older record of a channel first
ShowLess_oldestFirst(lhs, rhs) ==
    \/ StrLess(lhs.channel, rhs.channel)
    \/ /\ ~StrLess(rhs.channel, lhs.channel)
       /\ \/ lhs.date < rhs.date
          \/ (~(rhs.date < lhs.date) /\ lhs.time < rhs.time)

\* the comparator of Data::sort
ShowLess(lhs, rhs) ==
    \/ StrLess(lhs.channel, rhs.channel)
    \/ /\ ~StrLess(rhs.channel, lhs.channel)
       /\ \/ rhs.date < lhs.date
          \/ (~(lhs.date < rhs.date) /\ rhs.time < lhs.time)

\* what std::sort may leave of s, where comp[i][j] is the comparator applied
\* to s[i] and s[j]: any arrangement of the elements in which no element is
\* ordered before an earlier one (std::sort is not stable)
SortOutcomes(s, comp) ==
    LET n == Len(s)
        ok(p) == \A i, j \in 1..n : i < j => ~comp[p[j]][p[i]]
    IN  {[i \in 1..n |-> s[p[i]]] : p \in {r \in Permutations(1..n) : ok(r)}}

\* Data::sort
DataSort(shows) ==
    SortOutcomes(shows, [i \in 1..Len(shows) |->
                            [j \in 1..Len(shows) |-> ShowLess(shows[i], shows[j])]])

\* std::lower_bound, where less[i] is seq[i] < x: the first position whose
\* element is not less than x
lower_bound(seq, less) ==
    LET notLess == {i \in 1..Len(seq) : ~less[i]}
    IN  IF notLess = {} THEN Len(seq) + 1
        ELSE CHOOSE i \in notLess : \A j \in notLess : i <= j

\* std::vector::insert before pos
InsertAt(seq, pos, x) ==
    SubSeq(seq, 1, pos - 1) \o <<x>> \o SubSeq(seq, pos, Len(seq))

\* an insert that does not look whether x is there
InsertUnique_always(seq, x, less) == InsertAt(seq, lower_bound(seq, less), x)

\* the insert-if-absent of Data::index
InsertUnique(seq, x, less) ==
    LET pos == lower_bound(seq, less)
    IN  IF pos = Len(seq) + 1 \/ seq[pos] # x THEN InsertAt(seq, pos, x) ELSE seq

\* the loop of Data::index from record i on
RECURSIVE IndexFrom(_, _)
IndexFrom(d, i) ==
    IF i > Len(d.shows) THEN d
    ELSE LET show == d.shows[i]
             pair == <<to_lower_copy(show.channel), show.topic>>
         IN  IndexFrom(
                 [d EXCEPT
                     !.showsByTopic = Append(@, to_lower_copy(show.topic)),
                     !.showsByChannel = Append(@, to_lower_copy(show.channel)),
                     !.showsByTitle = Append(@, to_lower_copy(show.title)),
                     !.channels = InsertUnique(@, show.channel,
                         [k \in 1..Len(d.channels) |-> StrLess(d.channels[k], show.channel)]),
                     !.topics = InsertUnique(@, pair,
                         [k \in 1..Len(d.topics) |-> PairLess(d.topics[k], pair)])],
                 i + 1)

\* Data::index
DataIndex(d) == IndexFrom([EmptyData EXCEPT !.shows = d.shows], 1)

\* commit that sorts and leaves the indices as they were
Commit_unindexed(d) == {[d EXCEPT !.shows = s] : s \in DataSort(d.shows)}

\* Transaction::commit: the Data objects it may return
Commit(d) == {DataIndex([d EXCEPT !.shows = s]) : s \in DataSort(d.shows)}

-----------------------------------------------------------------------------
(* The query functions.  An id is a position in Data::shows, counted from 0. *)

\* std::iota(id.begin(), id.end(), 0) over n elements
Iota(n) == [i \in 1..n |-> i - 1]

\* collect: every index whose string contains the key is pushed onto id
collect(showsByKey, key, id) ==
    id \o SelectSeq(Iota(Len(showsByKey)), LAMBDA index : Contains(showsByKey[index + 1], key))

\* filter that removes nothing
filter_nothing(showsByKey, key, id) == id

\* filter: nothing for an empty key, else the ids whose string lacks it go
filter(showsByKey, key, id) ==
    IF key = <<>> THEN id
    ELSE SelectSeq(id, LAMBDA index : Contains(showsByKey[index + 1], key))

\* operator< of std::tie(string, date, time)
TieLess(a1, a2, a3, b1, b2, b3) ==
    \/ StrLess(a1, b1)
    \/ /\ ~StrLess(b1, a1)
       /\ \/ a2 < b2
          \/ (~(b2 < a2) /\ a3 < b3)

\* sort< Member >: std::sort of the ids by one member of the shows
sort(member, sortOrder, shows, id) ==
    LET n == Len(id)
        at(i) == shows[id[i] + 1][member]
    IN  IF sortOrder = "SortDescending"
        THEN SortOutcomes(id, [lhs \in 1..n |-> [rhs \in 1..n |-> at(rhs) < at(lhs)]])
        ELSE SortOutcomes(id, [lhs \in 1..n |-> [rhs \in 1..n |-> at(lhs) < at(rhs)]])

\* a chronological sort whose descending order has the oldest record of a
\* string first
chronologicalSort_reversed(showsByKey, sortOrder, shows, id) ==
    LET n == Len(id)
        key(i) == showsByKey[id[i] + 1]
        show_(i) == shows[id[i] + 1]
    IN  IF sortOrder = "SortDescending"
        THEN SortOutcomes(id, [lhs \in 1..n |-> [rhs \in 1..n |->
                 TieLess(key(rhs), show_(lhs).date, show_(lhs).time,
                         key(lhs), show_(rhs).date, show_(rhs).time)]])
        ELSE SortOutcomes(id, [lhs \in 1..n |-> [rhs \in 1..n |->
                 TieLess(key(lhs), show_(rhs).date, show_(rhs).time,
                         key(rhs), show_(lhs).date, show_(lhs).time)]])

\* chronologicalSort: std::sort of the ids by a case-folded string, then by
\* date and time with the sides exchanged
chronologicalSort(showsByKey, sortOrder, shows, id) ==
    LET n == Len(id)
        key(i) == showsByKey[id[i] + 1]
        show_(i) == shows[id[i] + 1]
    IN  IF sortOrder = "SortDescending"
        THEN SortOutcomes(id, [lhs \in 1..n |-> [rhs \in 1..n |->
                 TieLess(key(rhs), show_(rhs).date, show_(rhs).time,
                         key(lhs), show_(lhs).date, show_(lhs).time)]])
        ELSE SortOutcomes(id, [lhs \in 1..n |-> [rhs \in 1..n |->
                 TieLess(key(lhs), show_(rhs).date, show_(rhs).time,
                         key(rhs), show_(lhs).date, show_(lhs).time)]])

SortColumns == {"SortChannel", "SortTopic", "SortTitle", "SortDate", "SortTime", "SortDuration"}
SortOrders == {"SortAscending", "SortDescending"}

\* the candidates of Database::query: collect by the first non-empty key,
\* filter by the other two
queryCandidates(d, channel, topic, title) ==
    IF channel # <<>>
    THEN filter(d.showsByTitle, title,
             filter(d.showsByTopic, topic, collect(d.showsByChannel, channel, <<>>)))
    ELSE IF topic # <<>>
    THEN filter(d.showsByTitle, title,
             filter(d.showsByChannel, channel, collect(d.showsByTopic, topic, <<>>)))
    ELSE IF title # <<>>
    THEN filter(d.showsByTopic, topic,
             filter(d.showsByChannel, channel, collect(d.showsByTitle, title, <<>>)))
    ELSE Iota(Len(d.shows))

\* Database::query on the snapshot d: the id vectors it may return
query(d, channel, topic, title, sortColumn, sortOrder) ==
    LET id == queryCandidates(d, to_lower_copy(channel), to_lower_copy(topic),
                              to_lower_copy(title))
    IN  CASE sortColumn = "SortTopic" -> chronologicalSort(d.showsByTopic, sortOrder, d.shows, id)
          [] sortColumn = "SortTitle" -> chronologicalSort(d.showsByTitle, sortOrder, d.shows, id)
          [] sortColumn = "SortDate" -> sort("date", sortOrder, d.shows, id)
          [] sortColumn = "SortTime" -> sort("time", sortOrder, d.shows, id)
          [] sortColumn = "SortDuration" -> sort("duration", sortOrder, d.shows, id)
          [] OTHER -> IF sortOrder = "SortDescending"
                      THEN chronologicalSort(d.showsByChannel, sortOrder, d.shows, id)
                      ELSE {id}

\* the filter strings a caller passes
Filters == {sEmpty, sa, sB, sAb}

\* Database::channels on the snapshot d
channels(d) == d.channels

\* std::upper_bound, where greater[i] is x < seq[i]: the first position whose
\* element is greater than x
upper_bound(seq, greater) ==
    LET above == {i \in 1..Len(seq) : greater[i]}
    IN  IF above = {} THEN Len(seq) + 1
        ELSE CHOOSE i \in above : \A j \in above : i <= j

\* std::equal_range with the Comparator of Database::topics, which compares
\* the first half of a pair with the string
equal_range(pairs, string) ==
    [first |-> lower_bound(pairs, [k \in 1..Len(pairs) |-> StrLess(pairs[k][1], string)]),
     second |-> upper_bound(pairs, [k \in 1..Len(pairs) |-> StrLess(string, pairs[k][1])])]

\* topics that looks for the channel as it was passed
topics_unfolded(d, channel) ==
    IF channel # <<>>
    THEN LET range == equal_range(d.topics, channel)
         IN  [k \in 1..(range.second - range.first) |-> d.topics[range.first + k - 1][2]]
    ELSE [k \in 1..Len(d.topics) |-> d.topics[k][2]]

\* Database::topics on the snapshot d
topics(d, channel) ==
    LET lower == to_lower_copy(channel)
    IN  IF lower # <<>>
        THEN LET range == equal_range(d.topics, lower)
             IN  [k \in 1..(range.second - range.first) |-> d.topics[range.first + k - 1][2]]
        ELSE [k \in 1..Len(d.topics) |-> d.topics[k][2]]

\* the channel names a caller passes to topics
TopicsOf == {sEmpty, sa, sb, sB, sAB, sAb}

\* the value of a call that threw
NoShow == Show(<<>>, <<>>, <<>>, 0, 0, 0, <<>>)

\* a lookup that wraps around instead of failing
shows_at_wrapped(shows, id) ==
    IF shows = <<>> THEN [thrown |-> TRUE, value |-> NoShow]
    ELSE [thrown |-> FALSE, value |-> shows[(id % Len(shows)) + 1]]

\* m_data->shows.at(id): the element, or std::out_of_range is thrown
shows_at(shows, id) ==
    IF id < Len(shows) THEN [thrown |-> FALSE, value |-> shows[id + 1]]
    ELSE [thrown |-> TRUE, value |-> NoShow]

\* the ids a reader passes
Ids == 0..MaxId

-----------------------------------------------------------------------------
(* The heap of Data objects (std::shared_ptr< Data >) *)

\* a null DataPtr
Null == 0

\* at most three Data objects are alive at once: the current snapshot, one a
\* reader still holds, and the one of the running transaction
Ptrs == {1, 2, 3}

FreeCell == [alloc |-> FALSE, d |-> EmptyData]

Cell(d) == [alloc |-> TRUE, d |-> d]

\* std::make_shared: the address of the new object
Fresh(h) == CHOOSE p \in Ptrs : ~h[p].alloc /\ \A r \in Ptrs : ~h[r].alloc => p <= r

\* the last shared_ptr to p goes away unless one of `owners` still points to it
Release(h, p, owners) ==
    IF p = Null \/ p \in owners THEN h ELSE [h EXCEPT ![p] = FreeCell]

-----------------------------------------------------------------------------
(* The persisted file *)

\* The file is the stream of a boost binary archive, a sequence of numbers:
\* a std::string is its length and its characters, a std::vector its size and
\* its elements, every other member one number.

\* serialize: the members of a Show in the order the archive meets them
ShowMembers == <<"channel", "topic", "title", "date", "time", "duration", "url">>

\* the members that are std::string
StringMembers == {"channel", "topic", "title", "url"}

\* a string written without its length
save_string_raw(string) == string

\* archive << string
save_string(string) == <<Len(string)>> \o string

\* archive << show, from member k on
RECURSIVE save_show(_, _)
save_show(show, k) ==
    IF k > Len(ShowMembers) THEN <<>>
    ELSE LET member == ShowMembers[k]
         IN  (IF member \in StringMembers THEN save_string(show[member]) ELSE <<show[member]>>)
                 \o save_show(show, k + 1)

\* archive << m_data->shows, from element i on
RECURSIVE save_shows(_, _)
save_shows(shows, i) ==
    IF i > Len(shows) THEN <<>> ELSE save_show(shows[i], 1) \o save_shows(shows, i + 1)

\* Transaction::save, when the stream does not fail: what the file holds
save(shows) == <<Len(shows)>> \o save_shows(shows, 1)

\* archive >> show, from member k on and from position pos of the stream; the
\* archive throws when the stream ends early
RECURSIVE load_show(_, _, _, _)
load_show(stream, pos, show, k) ==
    IF k > Len(ShowMembers) THEN [ok |-> TRUE, show |-> show, pos |-> pos]
    ELSE IF pos > Len(stream) THEN [ok |-> FALSE, show |-> show, pos |-> pos]
    ELSE LET member == ShowMembers[k]
         IN  IF member \in StringMembers
             THEN LET size == stream[pos]
                  IN  IF pos + size > Len(stream)
                      THEN [ok |-> FALSE, show |-> show, pos |-> pos]
                      ELSE load_show(stream, pos + 1 + size,
                               [show EXCEPT ![member] = SubSeq(stream, pos + 1, pos + size)],
                               k + 1)
             ELSE load_show(stream, pos + 1, [show EXCEPT ![member] = stream[pos]], k + 1)

\* archive >> m_data->shows: `count` more elements from position pos on
RECURSIVE load_shows(_, _, _, _)
load_shows(stream, pos, count, shows) ==
    IF count = 0 THEN [ok |-> TRUE, shows |-> shows]
    ELSE LET next == load_show(stream, pos, NoShow, 1)
         IN  IF next.ok
             THEN load_shows(stream, next.pos, count - 1, Append(shows, next.show))
             ELSE [ok |-> FALSE, shows |-> shows]

\* Transaction::load: whether it returns true, and the shows it has read
load(stream) ==
    IF stream = <<>> THEN [ok |-> FALSE, shows |-> <<>>]
    ELSE load_shows(stream, 2, stream[1], <<>>)

\* a missing or empty file
NoFile == <<>>

\* the file a successful save of `shows` leaves
Saved(shows) == save(shows)

\* a file that ends inside its second record
Malformed == SubSeq(Saved(<<p1, p3>>), 1, Len(Saved(<<p1>>)) + 2)

\* what the file may hold when the Database is constructed: nothing, or what an
\* earlier run saved (in the order the transaction held the records)
InitFiles == {NoFile, Saved(<<>>), Saved(<<p1>>), Saved(<<p4, p3>>), Saved(<<p1, p6, p2>>)}

-----------------------------------------------------------------------------
(* Transactions *)

\* a full update that starts from the current shows
FullUpdate_keepsShows(h, fresh, data) ==
    [ptr |-> fresh,
     heap |-> [h EXCEPT ![fresh] = Cell([EmptyData EXCEPT !.shows = h[data].d.shows])]]

\* FullUpdate::FullUpdate: a new, empty Data; the current snapshot is ignored
FullUpdate(h, fresh, data) ==
    [ptr |-> fresh, heap |-> [h EXCEPT ![fresh] = Cell(EmptyData)]]

\* a partial update that takes the current Data itself (m_data = data)
PartialUpdate_shared(h, fresh, data) == [ptr |-> data, heap |-> h]

\* PartialUpdate::PartialUpdate: a new Data holding a copy of the current shows
PartialUpdate(h, fresh, data) ==
    [ptr |-> fresh,
     heap |-> [h EXCEPT ![fresh] = Cell([EmptyData EXCEPT !.shows = h[data].d.shows])]]

\* FullUpdate::operator()
FullUpdateCall(shows, show) == Append(shows, show)

\* a merge that never finds the key
PartialUpdateCall_appends(shows, newShow) == Append(shows, newShow)

\* PartialUpdate::operator(): std::find_if for the key, then replace or append
PartialUpdateCall(shows, newShow) ==
    LET same == {i \in 1..Len(shows) : ShowKey(newShow) = ShowKey(shows[i])}
    IN  IF same # {}
        THEN LET pos == CHOOSE i \in same : \A j \in same : i <= j
             IN  [shows EXCEPT ![pos] = newShow]
        ELSE Append(shows, newShow)

\* the raw bytes of a request, as what parse() makes of them: the records it
\* hands to the processor, in order, and the value it returns
Inputs == {[shows |-> s, ok |-> b] : s \in SeqsUpTo(ShowPool, MaxBatch), b \in BOOLEAN}

Kinds == {"FullUpdate", "PartialUpdate"}

-----------------------------------------------------------------------------
(* Database::m_update, a QFutureWatcher< DataPtr >, with the worker of its
   future.  QFutureWatcher::isRunning() reads the Running flag of the future,
   which the worker thread clears (reportFinished) when the lambda has
   returned; resultReadyAt is a queued call-out event, delivered later by the
   event loop of the Database's thread (`pending`).  QFutureWatcher::setFuture
   disconnects from the previous future and removes its call-out events that
   are still posted. *)

IdleFuture ==
    [stage |-> "idle", kind |-> "FullUpdate", data |-> [shows |-> <<>>, ok |-> TRUE],
     fed |-> 0, transaction |-> Null, base |-> <<>>, result |-> Null, pending |-> FALSE]

\* a guard that never sees a running worker
isRunning_never(u) == FALSE

\* m_update.isRunning()
isRunning(u) == u.stage \in {"started", "parsing", "saving", "committing"}

\* the worker has returned `result`
Finished(u, result) ==
    [u EXCEPT !.stage = "finished", !.transaction = Null, !.result = result, !.pending = TRUE]

NoReader == [ptr |-> Null, seen |-> EmptyData, id |-> 0, show |-> NoShow, thrown |-> FALSE]

NoQuery ==
    [called |-> FALSE, channel |-> <<>>, topic |-> <<>>, title |-> <<>>,
     sortColumn |-> "SortChannel", sortOrder |-> "SortAscending", id |-> <<>>,
     topicsCalled |-> FALSE, topics |-> <<>>]

InitLog ==
    [requests |-> 0, accepted |-> 0, succeeded |-> 0, failed |-> 0,
     updated |-> 0, failedToUpdate |-> 0, setDatabaseUpdatedOn |-> 0, error |-> ""]

-----------------------------------------------------------------------------
(* Database::Database *)

\* a constructor that commits whatever load has read
Database_partial(f) == Commit([EmptyData EXCEPT !.shows = load(f).shows])

\* the Data the constructor leaves in m_data
Database(f) ==
    LET transaction == load(f)
    IN  IF transaction.ok THEN Commit([EmptyData EXCEPT !.shows = transaction.shows])
        ELSE {EmptyData}

\* the state after construction over one of `files`
Constructed(files) ==
    /\ file \in files
    /\ m_data = 1
    /\ \E d \in Database(file) : heap = [p \in Ptrs |-> IF p = 1 THEN Cell(d) ELSE FreeCell]
    /\ m_update = IdleFuture
    /\ held = NoReader
    /\ log = InitLog
    /\ q = NoQuery
    /\ life = "alive"

Init == Constructed(InitFiles)

-----------------------------------------------------------------------------
(* Database::update< Transaction > : fullUpdate and partialUpdate *)

\* the request returns at once because a worker is running; its bytes are
\* not looked at
UpdateDropped ==
    /\ isRunning(m_update)
    /\ log' = [log EXCEPT !.requests = @ + 1]
    /\ UNCHANGED <<heap, m_data, file, m_update, held, q, life>>

\* m_update.setFuture(QtConcurrent::run(...)): a new future is watched; a result
\* of the previous future that was not yet delivered is never delivered
UpdateAccepted(kind, data) ==
    /\ ~isRunning(m_update)
    /\ m_update' = [IdleFuture EXCEPT !.stage = "started", !.kind = kind, !.data = data]
    /\ heap' = IF m_update.pending THEN Release(heap, m_update.result, {m_data, held.ptr})
               ELSE heap
    /\ log' = [log EXCEPT !.requests = @ + 1, !.accepted = @ + 1]
    /\ UNCHANGED <<m_data, file, held, q, life>>

Update ==
    /\ life = "alive"
    /\ log.requests < MaxRequests
    /\ \/ UpdateDropped
       \/ \E kind \in Kinds, data \in Inputs : UpdateAccepted(kind, data)

-----------------------------------------------------------------------------
(* The worker: the lambda of Database::update *)

\* Transaction transaction(m_data): m_data is read on the worker thread
WorkerStart ==
    /\ m_update.stage = "started"
    /\ LET t == IF m_update.kind = "FullUpdate"
                THEN FullUpdate(heap, Fresh(heap), m_data)
                ELSE PartialUpdate(heap, Fresh(heap), m_data)
       IN  /\ heap' = t.heap
           /\ m_update' = [m_update EXCEPT !.stage = "parsing", !.transaction = t.ptr,
                                           !.base = heap[m_data].d.shows]
    /\ UNCHANGED <<m_data, file, held, log, q, life>>

\* parse(data, transaction) hands the next record to the processor
WorkerFeed ==
    /\ m_update.stage = "parsing"
    /\ m_update.fed < Len(m_update.data.shows)
    /\ LET t == m_update.transaction
           show == m_update.data.shows[m_update.fed + 1]
           shows == IF m_update.kind = "FullUpdate"
                    THEN FullUpdateCall(heap[t].d.shows, show)
                    ELSE PartialUpdateCall(heap[t].d.shows, show)
       IN  heap' = [heap EXCEPT ![t].d.shows = shows]
    /\ m_update' = [m_update EXCEPT !.fed = @ + 1]
    /\ UNCHANGED <<m_data, file, held, log, q, life>>

\* parse returns: on failure the lambda returns DataPtr() and the transaction
\* is destroyed
WorkerParsed ==
    /\ m_update.stage = "parsing"
    /\ m_update.fed = Len(m_update.data.shows)
    /\ IF m_update.data.ok
       THEN /\ m_update' = [m_update EXCEPT !.stage = "saving"]
            /\ UNCHANGED <<heap, log>>
       ELSE /\ m_update' = Finished(m_update, Null)
            /\ heap' = Release(heap, m_update.transaction, {m_data, held.ptr})
            /\ log' = [log EXCEPT !.failed = @ + 1]
    /\ UNCHANGED <<m_data, file, held, q, life>>

\* a save that writes the records in the order Data::sort gives them
WorkerSave_sorted ==
    /\ m_update.stage = "saving"
    /\ \/ /\ \E shows \in DataSort(heap[m_update.transaction].d.shows) : file' = Saved(shows)
          /\ m_update' = [m_update EXCEPT !.stage = "committing"]
          /\ UNCHANGED <<heap, log>>
       \/ /\ file' \in {file, NoFile}
          /\ m_update' = Finished(m_update, Null)
          /\ heap' = Release(heap, m_update.transaction, {m_data, held.ptr})
          /\ log' = [log EXCEPT !.failed = @ + 1]
    /\ UNCHANGED <<m_data, held, q, life>>

\* transaction.save(databasePath()): the records as the transaction holds them
\* are written; when the stream fails the file is as it was (it could not be
\* opened) or truncated (the write failed after std::ofstream opened it)
WorkerSave ==
    /\ m_update.stage = "saving"
    /\ \/ /\ file' = Saved(heap[m_update.transaction].d.shows)
          /\ m_update' = [m_update EXCEPT !.stage = "committing"]
          /\ UNCHANGED <<heap, log>>
       \/ /\ file' \in {file, NoFile}
          /\ m_update' = Finished(m_update, Null)
          /\ heap' = Release(heap, m_update.transaction, {m_data, held.ptr})
          /\ log' = [log EXCEPT !.failed = @ + 1]
    /\ UNCHANGED <<m_data, held, q, life>>

\* return transaction.commit(): sort, index, and the Data is the result
WorkerCommit ==
    /\ m_update.stage = "committing"
    /\ LET t == m_update.transaction
       IN  /\ \E d \in Commit(heap[t].d) : heap' = [heap EXCEPT ![t].d = d]
           /\ m_update' = Finished(m_update, t)
    /\ log' = [log EXCEPT !.succeeded = @ + 1]
    /\ UNCHANGED <<m_data, file, held, q, life>>

-----------------------------------------------------------------------------
(* Database::updateReady, the slot of m_update.resultReadyAt *)

updateReady ==
    /\ life = "alive"
    /\ m_update.pending
    /\ LET data == m_update.result
       IN  IF data = Null
           THEN /\ log' = [log EXCEPT !.failedToUpdate = @ + 1,
                                      !.error = "Failed to parse or save data."]
                /\ UNCHANGED <<heap, m_data>>
           ELSE /\ m_data' = data
                /\ heap' = Release(heap, m_data, {data, held.ptr})
                /\ log' = [log EXCEPT !.setDatabaseUpdatedOn = @ + 1, !.updated = @ + 1]
    /\ m_update' = IdleFuture
    /\ UNCHANGED <<file, held, q, life>>

-----------------------------------------------------------------------------
(* Database::show: a reader calls show(id) and assigns the result to the
   pointer it holds: a shared_ptr that shares ownership of the current
   snapshot and points to the record.  When the call throws, the reader's
   pointer is what it was. *)

show ==
    /\ life = "alive"
    /\ \E id \in Ids :
          LET at_id == shows_at(heap[m_data].d.shows, id)
          IN  IF at_id.thrown
              THEN /\ held' = [held EXCEPT !.id = id, !.thrown = TRUE]
                   /\ heap' = heap
              ELSE /\ held' = [ptr |-> m_data, seen |-> heap[m_data].d, id |-> id,
                               show |-> at_id.value, thrown |-> FALSE]
                   /\ heap' = Release(heap, held.ptr,
                                      {m_data, m_update.result, m_update.transaction})
    /\ UNCHANGED <<m_data, file, m_update, log, q, life>>

\* the reader lets go of the record
drop ==
    /\ held.ptr # Null
    /\ held' = NoReader
    /\ heap' = Release(heap, held.ptr, {m_data, m_update.result, m_update.transaction})
    /\ UNCHANGED <<m_data, file, m_update, log, q, life>>

-----------------------------------------------------------------------------

Next ==
    \/ Update
    \/ WorkerStart
    \/ WorkerFeed
    \/ WorkerParsed
    \/ WorkerSave
    \/ WorkerCommit
    \/ updateReady
    \/ show
    \/ drop

Spec == Init /\ [][Next]_vars

TypeOK ==
    /\ life \in {"alive", "joining", "destroyed"}
    /\ life # "destroyed" => (m_data \in Ptrs /\ heap[m_data].alloc)
    /\ m_update.transaction # Null => heap[m_update.transaction].alloc
    /\ m_update.result # Null => heap[m_update.result].alloc
    /\ held.ptr # Null => heap[held.ptr].alloc

-----------------------------------------------------------------------------
(* Database::~Database.  The destructor runs on the thread of the Database,
   so while it waits no request, no slot and no show runs there; the worker
   goes on.  When the destructor body has returned the members are destroyed:
   the watcher with the result of its future and the call-out events still
   posted, and the Database's pointer to the current snapshot. *)

\* a wait that returns at once
waitForFinished_atOnce(u) == TRUE

\* m_update.waitForFinished() returns: the watched future is not running
waitForFinished(u) == ~isRunning(u)

\* ~Database is entered
DatabaseDestructor ==
    /\ life = "alive"
    /\ life' = "joining"
    /\ UNCHANGED <<heap, m_data, file, m_update, held, log, q>>

\* waitForFinished has returned and the members are destroyed
DatabaseDestroyed ==
    /\ life = "joining"
    /\ waitForFinished(m_update)
    /\ life' = "destroyed"
    /\ heap' = Release(Release(heap, m_update.result, {m_data, held.ptr}),
                       m_data, {held.ptr, m_update.transaction})
    /\ m_data' = Null
    /\ m_update' = [m_update EXCEPT !.result = Null, !.pending = FALSE]
    /\ UNCHANGED <<file, held, log, q>>

\* the files a Database that is torn down was constructed over
TeardownFiles == {NoFile, Saved(<<p4, p3>>)}

TeardownInit == Constructed(TeardownFiles)

TeardownNext ==
    \/ Next
    \/ DatabaseDestructor
    \/ DatabaseDestroyed

TeardownSpec == TeardownInit /\ [][TeardownNext]_vars

-----------------------------------------------------------------------------
(* Vocabulary of the properties *)

\* a rebuild is in flight: a worker was started and has not returned
InFlight == m_update.stage \in {"started", "parsing", "saving", "committing"}

\* a worker has returned and its result has not been delivered to updateReady
CompletionPending == m_update.pending

\* the Store is idle and nothing is left to deliver
Quiet == ~InFlight /\ ~CompletionPending

\* how often x occurs in s
Count(s, x) == Cardinality({i \in 1..Len(s) : s[i] = x})

\* the same records, whatever their order
SameRecords(s, t) == Len(s) = Len(t) /\ \A i \in 1..Len(s) : Count(s, s[i]) = Count(t, s[i])

\* sorted by Data::sort and indexed by Data::index
Committed(d) ==
    /\ \A i, j \in 1..Len(d.shows) : i < j => ~ShowLess(d.shows[j], d.shows[i])
    /\ d = DataIndex(d)

-----------------------------------------------------------------------------
C2_EveryAcceptedRequestNotified ==
    Quiet => log.accepted = log.updated + log.failedToUpdate

\* C3: whenever the Store is idle with nothing left to deliver, every rebuild
\* that failed has fired failedToUpdate("Failed to parse or save data.") and
\* nothing else, and no failed rebuild was swapped in or recorded.
C3_FailedRebuildReported ==
    Quiet => /\ log.failedToUpdate = log.failed
             /\ log.updated + log.failedToUpdate <= log.accepted
             /\ log.updated = log.setDatabaseUpdatedOn
             /\ (log.failed > 0 => log.error = "Failed to parse or save data.")


\* C4: the snapshot m_data points to is always a committed one (sorted and
\* fully indexed, or the empty one of the constructor) and never the Data of
\* the transaction still being built; m_data changes only when updateReady
\* receives a non-null result, to exactly that result, whose Data is the one
\* the worker committed.
C4_OnlyCommittedSnapshots ==
    /\ [](Committed(heap[m_data].d) /\ heap[m_data].alloc /\ m_update.transaction # m_data)
    /\ [][m_data' # m_data
            => /\ m_update.pending
               /\ m_update.result # Null
               /\ m_data' = m_update.result
               /\ heap'[m_data'] = heap[m_update.result]
               /\ ~m_update'.pending]_vars

\* a transaction holds unsorted, unindexed records while the Store holds a
\* non-empty snapshot that an earlier update swapped in
C4_Witness ==
    /\ m_update.stage = "saving"
    /\ ~Committed(heap[m_update.transaction].d)
    /\ log.updated = 1
    /\ Len(heap[m_data].d.shows) = 2

\* C5: a Data object that the Database or a reader points to is never written:
\* as long as one of them keeps pointing to it, it holds the same records and
\* indices from one step to the next, and what a reader captured through show
\* is what its pointer still shows.
C5_PublishedDataImmutable ==
    /\ [](held.ptr # Null => heap[held.ptr] = Cell(held.seen))
    /\ [][\A p \in Ptrs :
            (p \in {m_data, held.ptr} /\ p \in {m_data', held'.ptr}) => heap'[p] = heap[p]]_vars

\* a reader still holds the snapshot that was replaced by a swap while a
\* partial update over the new snapshot has merged its records
C5_Witness ==
    /\ held.ptr # Null
    /\ held.ptr # m_data
    /\ Len(held.seen.shows) > 0
    /\ m_update.kind = "PartialUpdate"
    /\ m_update.stage = "parsing"
    /\ m_update.fed = 2
    /\ heap[m_update.transaction].d.shows # heap[m_data].d.shows

\* C6: whenever the Store is idle with nothing left to deliver and a save has
\* succeeded, the file holds exactly the records of the current snapshot.
C6_FileMatchesCatalog ==
    (Quiet /\ log.succeeded > 0)
        => (load(file).ok /\ SameRecords(load(file).shows, heap[m_data].d.shows))

\* C7: whenever the Store is idle with nothing left to deliver,
\* setDatabaseUpdatedOn has been called once for every rebuild whose parse and
\* save succeeded, and for no other.
C7_TimestampOncePerSuccess ==
    Quiet => log.setDatabaseUpdatedOn = log.succeeded


\* C8: the Data a successful full update returns, and the snapshot the Store
\* holds once that result is swapped in, has as many records as the parser
\* delivered and exactly those records, duplicates included, whatever the
\* snapshot was that the worker found.
C8_FullUpdateYieldsDelivered ==
    /\ []((m_update.kind = "FullUpdate" /\ m_update.stage = "finished" /\ m_update.result # Null)
            => /\ Len(heap[m_update.result].d.shows) = Len(m_update.data.shows)
               /\ SameRecords(heap[m_update.result].d.shows, m_update.data.shows))
    /\ [][(m_update.kind = "FullUpdate" /\ m_data' # m_data)
            => /\ Len(heap'[m_data'].d.shows) = Len(m_update.data.shows)
               /\ SameRecords(heap'[m_data'].d.shows, m_update.data.shows)]_vars

\* a full update that delivered the same record twice has succeeded over a
\* snapshot of another size
C8_Witness ==
    /\ m_update.kind = "FullUpdate"
    /\ m_update.stage = "finished"
    /\ m_update.result # Null
    /\ Len(m_update.data.shows) = 2
    /\ m_update.data.shows[1] = m_update.data.shows[2]
    /\ Len(m_update.base) = 1
    /\ m_update.base[1] # m_update.data.shows[1]

\* the result of a partial update that delivered the one record x over the
\* snapshot `base`
MergedOne(base, x, merged) ==
    LET matched == \E i \in 1..Len(base) : ShowKey(base[i]) = ShowKey(x)
    IN  /\ Len(merged) = (IF matched THEN Len(base) ELSE Len(base) + 1)
        /\ \E i \in 1..Len(merged) : merged[i] = x
        /\ \A r \in {base[i] : i \in 1..Len(base)} \cup {merged[i] : i \in 1..Len(merged)} :
              ShowKey(r) # ShowKey(x) => Count(merged, r) = Count(base, r)
        /\ \A i \in 1..Len(merged) : ShowKey(merged[i]) = ShowKey(x) =>
              (merged[i] = x \/ Count(merged, merged[i]) <= Count(base, merged[i]))

\* C9: a successful partial update that delivered one record over a snapshot
\* of N records returns N records when a record of the snapshot has the
\* record's (title, url, channel, topic), and then the incoming content is in
\* the result; it returns N + 1 records otherwise; and every record with
\* another key is in the result as often as in the snapshot.
C9_PartialUpdateMergesOne ==
    /\ []((m_update.kind = "PartialUpdate" /\ m_update.stage = "finished"
              /\ m_update.result # Null /\ Len(m_update.data.shows) = 1)
            => MergedOne(m_update.base, m_update.data.shows[1], heap[m_update.result].d.shows))
    /\ [][(m_update.kind = "PartialUpdate" /\ m_data' # m_data /\ Len(m_update.data.shows) = 1)
            => MergedOne(heap[m_data].d.shows, m_update.data.shows[1], heap'[m_data'].d.shows)]_vars

\* a partial update has replaced the content of a record of a two-record
\* snapshot by an incoming record with the same key and another content
C9_Witness ==
    /\ m_update.kind = "PartialUpdate"
    /\ m_update.stage = "finished"
    /\ m_update.result # Null
    /\ Len(m_update.data.shows) = 1
    /\ Len(m_update.base) = 2
    /\ \E i \in 1..2 : /\ ShowKey(m_update.base[i]) = ShowKey(m_update.data.shows[1])
                       /\ m_update.base[i] # m_update.data.shows[1]
    /\ Len(heap[m_update.result].d.shows) = 2


-----------------------------------------------------------------------------
(* Queries against a snapshot: the Database is constructed over a saved file
   of up to MaxShows records, or over a missing or malformed one, and query
   is called with every argument. *)

QueryFiles == {Saved(shows) : shows \in SeqsUpTo(ShowPool, MaxShows)} \cup {NoFile, Malformed}

QueryInit == Constructed(QueryFiles)

\* query is const: it reads the snapshot and leaves the Database as it was, so
\* one call per run shows every result
Query ==
    /\ ~q.called
    /\ ~q.topicsCalled
    /\ \E channel \in Filters, topic \in Filters, title \in Filters,
          sortColumn \in SortColumns, sortOrder \in SortOrders :
          \E id \in query(heap[m_data].d, channel, topic, title, sortColumn, sortOrder) :
             q' = [NoQuery EXCEPT !.called = TRUE, !.channel = channel, !.topic = topic,
                                  !.title = title, !.sortColumn = sortColumn,
                                  !.sortOrder = sortOrder, !.id = id]
    /\ UNCHANGED <<heap, m_data, file, m_update, held, log, life>>

\* topics is const as well
Topics ==
    /\ ~q.called
    /\ ~q.topicsCalled
    /\ \E channel \in TopicsOf :
          q' = [NoQuery EXCEPT !.topicsCalled = TRUE, !.channel = channel,
                               !.topics = topics(heap[m_data].d, channel)]
    /\ UNCHANGED <<heap, m_data, file, m_update, held, log, life>>

QueryNext ==
    \/ Query
    \/ Topics

QuerySpec == QueryInit /\ [][QueryNext]_vars

\* the positions of the snapshot whose channel, topic and title, case-folded,
\* each have the case-folded filter somewhere inside
Matching(shows, channel, topic, title) ==
    LET inside(text, part) ==
            \E from \in 1..(Len(text) + 1), to \in 0..Len(text) :
               /\ to - from + 1 = Len(part)
               /\ \A k \in 1..Len(part) :
                     to_lower_char(text[from + k - 1]) = to_lower_char(part[k])
    IN  {i \in 0..(Len(shows) - 1) :
            /\ inside(shows[i + 1].channel, channel)
            /\ inside(shows[i + 1].topic, topic)
            /\ inside(shows[i + 1].title, title)}

\* C10: the ids query returns are, without repetition, exactly the positions
\* whose case-folded channel, topic and title contain the case-folded filters
\* (an empty filter matches everything), whichever filter collected the
\* candidates and whatever the sort.
C10_QueryReturnsMatching ==
    q.called =>
        /\ {q.id[i] : i \in 1..Len(q.id)}
              = Matching(heap[m_data].d.shows, q.channel, q.topic, q.title)
        /\ \A i, j \in 1..Len(q.id) : i # j => q.id[i] # q.id[j]

\* a query collected by topic, with an upper-case title filter that is found
\* inside one title and not in the other, returned one of two records
C10_Witness ==
    /\ q.called
    /\ q.channel = sEmpty
    /\ q.topic = sa
    /\ q.title = sB
    /\ Len(heap[m_data].d.shows) = 2
    /\ Len(q.id) = 1
    /\ \E i \in 1..2 : heap[m_data].d.shows[i].topic = sa /\ ~(i - 1 = q.id[1])

-----------------------------------------------------------------------------
\* C11: the Record sequence of the snapshot the Store holds, be it the empty
\* one, the one loaded at construction or one swapped in by a full or partial
\* update, is sorted by the original-case channel ascending; records of one
\* channel are in descending order of air date, and records of one channel
\* and date in descending order of air time.
C11_RecordsInCanonicalOrder ==
    LET shows == heap[m_data].d.shows
    IN  \A i, j \in 1..Len(shows) : i < j =>
           /\ ~StrLess(shows[j].channel, shows[i].channel)
           /\ shows[i].channel = shows[j].channel =>
                 /\ shows[i].date >= shows[j].date
                 /\ shows[i].date = shows[j].date => shows[i].time >= shows[j].time

\* an update has swapped in a snapshot in which two records of one channel
\* differ in date, two of one channel and date differ in time, and a channel
\* in upper case stands before one in lower case that case folding would put
\* first
C11_Witness ==
    LET shows == heap[m_data].d.shows
        pairs == {<<i, j>> \in (1..Len(shows)) \X (1..Len(shows)) : i < j}
    IN  /\ log.updated = 1
        /\ \E p \in pairs : /\ shows[p[1]].channel = shows[p[2]].channel
                             /\ shows[p[1]].date > shows[p[2]].date
        /\ \E p \in pairs : /\ shows[p[1]].channel = shows[p[2]].channel
                             /\ shows[p[1]].date = shows[p[2]].date
                             /\ shows[p[1]].time > shows[p[2]].time
        /\ \E p \in pairs : StrLess(to_lower_copy(shows[p[2]].channel),
                                     to_lower_copy(shows[p[1]].channel))

\* C12: in the snapshot the Store holds, the channel list is strictly
\* increasing and holds exactly the original-case channels of the records;
\* the list of (case-folded channel, topic) pairs is strictly increasing and
\* holds exactly the pairs of the records; and each of the three search
\* sequences has, position by position, the case-folded channel, topic and
\* title of the Record sequence.
C12_IndicesDerived ==
    LET d == heap[m_data].d
        n == Len(d.shows)
    IN  /\ \A i, j \in 1..Len(channels(d)) : i < j => StrLess(channels(d)[i], channels(d)[j])
        /\ {channels(d)[i] : i \in 1..Len(channels(d))} = {d.shows[i].channel : i \in 1..n}
        /\ \A i, j \in 1..Len(d.topics) : i < j => PairLess(d.topics[i], d.topics[j])
        /\ {d.topics[i] : i \in 1..Len(d.topics)}
              = {<<to_lower_copy(d.shows[i].channel), d.shows[i].topic>> : i \in 1..n}
        /\ Len(d.showsByChannel) = n
        /\ Len(d.showsByTopic) = n
        /\ Len(d.showsByTitle) = n
        /\ \A i \in 1..n : /\ d.showsByChannel[i] = to_lower_copy(d.shows[i].channel)
                            /\ d.showsByTopic[i] = to_lower_copy(d.shows[i].topic)
                            /\ d.showsByTitle[i] = to_lower_copy(d.shows[i].title)

\* an update has swapped in a snapshot with three channels, of which the
\* last one, in lower case, is the first one of the pair list, and with two
\* records of one channel and topic
C12_Witness ==
    LET d == heap[m_data].d
    IN  /\ log.updated = 1
        /\ Len(d.channels) = 3
        /\ Len(d.topics) > Len(d.channels)
        /\ Len(d.topics) < Len(d.shows)
        /\ d.topics[1][1] = to_lower_copy(d.channels[3])

\* C13: a call show(id) that finds id below the size of the current snapshot
\* returns a pointer to the record at position id of that snapshot, and the
\* pointer keeps denoting that record; a call with any other id throws
\* std::out_of_range and returns nothing.
C13_ShowByPosition ==
    /\ []((held.ptr # Null /\ ~held.thrown)
            => /\ held.id < Len(heap[held.ptr].d.shows)
               /\ held.show = heap[held.ptr].d.shows[held.id + 1])
    /\ [][(held' # held /\ (held'.thrown \/ held'.ptr # Null))
            => LET shows == heap[m_data].d.shows
               IN  IF held'.id < Len(shows)
                   THEN /\ ~held'.thrown
                        /\ held'.ptr = m_data
                        /\ held'.show = shows[held'.id + 1]
                   ELSE /\ held'.thrown
                        /\ held'.ptr = held.ptr
                        /\ held'.show = held.show]_vars

\* a reader holds a record it got from a snapshot that an update has since
\* replaced, and its call with the id of that record has thrown
C13_Witness ==
    /\ log.updated = 1
    /\ held.ptr # Null
    /\ held.ptr # m_data
    /\ held.thrown
    /\ held.id < Len(held.seen.shows)
    /\ held.seen.shows[held.id + 1] = held.show
    /\ held.id >= Len(heap[m_data].d.shows)

\* C14: topics(channel) with an empty channel returns the topic half of every
\* pair of the (case-folded channel, topic) list, in the order of the list;
\* with a non-empty channel it returns, in the order of the list, the topic
\* half of exactly the pairs whose channel half is the case-folded argument;
\* so the result is that of the call with the case-folded argument, and it is
\* empty when no record has the channel.
C14_TopicsOfChannel ==
    q.topicsCalled =>
        LET d == heap[m_data].d
            lower == to_lower_copy(q.channel)
            all == [k \in 1..Len(d.topics) |-> d.topics[k][2]]
            ofChannel == SelectSeq(d.topics, LAMBDA pair : pair[1] = lower)
        IN  /\ q.channel = <<>> => q.topics = all
            /\ q.channel # <<>> =>
                  q.topics = [k \in 1..Len(ofChannel) |-> ofChannel[k][2]]
            /\ q.topics = topics(d, lower)
            /\ (q.channel # <<>> /\ \A i \in 1..Len(d.shows) :
                                       to_lower_copy(d.shows[i].channel) # lower)
                  => q.topics = <<>>

\* topics was called with a channel in upper case over a snapshot of two
\* channels and returned the two topics of that channel, upper case first,
\* which are the last two of the pair list
C14_Witness ==
    /\ q.topicsCalled
    /\ q.channel = sB
    /\ q.topics = <<sB, sa>>
    /\ Len(heap[m_data].d.channels) = 2
    /\ Len(heap[m_data].d.topics) = 3
    /\ heap[m_data].d.topics[1][1] = sa

\* C15: once the worker has saved, loading the file succeeds and gives the
\* records the transaction held when it saved, each with the same members and
\* in the same order; and the Data that construction would build from the
\* file (load, sort, index) are the Data that sort and index build from those
\* records, the one the worker then returns among them.
C15_SaveLoadRoundTrip ==
    /\ m_update.stage = "committing" =>
          LET saved == heap[m_update.transaction].d.shows
          IN  /\ load(file) = [ok |-> TRUE, shows |-> saved]
              /\ Database(file) = Commit([EmptyData EXCEPT !.shows = saved])
    /\ (m_update.stage = "finished" /\ m_update.result # Null) =>
          /\ load(file).ok
          /\ heap[m_update.result].d \in Database(file)

\* the worker has saved two records of different channels, with strings of
\* different lengths, in an order that is not the sorted one, and loading
\* the file gives them in that order
C15_Witness ==
    /\ m_update.stage = "committing"
    /\ Len(load(file).shows) = 2
    /\ load(file).shows[1].channel = sa
    /\ load(file).shows[2].channel = sAB
    /\ Len(file) > 20

\* C16: a Database constructed over a file that cannot be loaded (missing,
\* empty or malformed) is idle, holds the empty snapshot and has fired no
\* notification; one constructed over a file that can be loaded is idle and
\* holds the loaded records, sorted and indexed.  This is the state before
\* the first call; a query or topics call that follows finds an allocated
\* snapshot and an idle Database.
C16_ConstructionSurvivesFile ==
    /\ heap[m_data].alloc
    /\ m_update = IdleFuture
    /\ ~isRunning(m_update)
    /\ log = InitLog
    /\ (~q.called /\ ~q.topicsCalled) =>
          LET d == heap[m_data].d
              transaction == load(file)
          IN  /\ ~transaction.ok => d = EmptyData
              /\ transaction.ok => /\ SameRecords(d.shows, transaction.shows)
                                   /\ Committed(d)

\* the Database was constructed over a file whose second record is cut
\* short: load has read one record and failed, and the Database holds none
C16_Witness ==
    /\ ~q.called
    /\ ~q.topicsCalled
    /\ file # NoFile
    /\ ~load(file).ok
    /\ Len(load(file).shows) = 1
    /\ heap[m_data].d = EmptyData

\* the indices of a Data that index has not yet run over
Unindexed(d) ==
    /\ d.showsByChannel = <<>>
    /\ d.showsByTopic = <<>>
    /\ d.showsByTitle = <<>>
    /\ d.channels = <<>>
    /\ d.topics = <<>>

Chronological(key, descending, shows, id) ==
    \A i, j \in 1..Len(id) : i < j =>
        LET lhs == id[i] + 1
            rhs == id[j] + 1
        IN  /\ IF descending THEN ~StrLess(key[lhs], key[rhs]) ELSE ~StrLess(key[rhs], key[lhs])
            /\ key[lhs] = key[rhs] =>
                  /\ shows[lhs].date >= shows[rhs].date
                  /\ shows[lhs].date = shows[rhs].date => shows[lhs].time >= shows[rhs].time

\* C18: the ids that query returns for sortColumn = channel and sortOrder =
\* ascending, for which it does not sort, are in ascending order of the
\* case-folded channel, and ids of one channel in descending order of air
\* date and time, whatever the letter case of the channel names.
C18_ChannelAscendingWithoutSort ==
    (q.called /\ q.sortColumn = "SortChannel" /\ q.sortOrder = "SortAscending")
        => Chronological([i \in 1..Len(heap[m_data].d.shows) |->
                             to_lower_copy(heap[m_data].d.shows[i].channel)],
                         FALSE, heap[m_data].d.shows, q.id)

\* the case-folded member of every record of shows
Folded(shows, member) == [i \in 1..Len(shows) |-> to_lower_copy(shows[i][member])]

\* C19: for sortColumn = topic or title, and for channel descending, the ids
\* query returns are the candidates that passed the filters, each as often
\* as among them, in ascending or descending order of the case-folded member
\* as requested; ids with equal case-folded members are in descending order
\* of air date, then of air time, for either direction.
C19_ChronologicalOrder ==
    (q.called /\ \/ q.sortColumn \in {"SortTopic", "SortTitle"}
                 \/ (q.sortColumn = "SortChannel" /\ q.sortOrder = "SortDescending"))
        => LET d == heap[m_data].d
               member == CASE q.sortColumn = "SortTopic" -> "topic"
                           [] q.sortColumn = "SortTitle" -> "title"
                           [] OTHER -> "channel"
           IN  /\ SameRecords(q.id, queryCandidates(d, to_lower_copy(q.channel),
                                    to_lower_copy(q.topic), to_lower_copy(q.title)))
               /\ Chronological(Folded(d.shows, member), q.sortOrder = "SortDescending",
                                d.shows, q.id)

\* a query sorted by topic, descending, has returned three ids: first a
\* record whose topic is the greater one only after case folding, then two
\* records of one topic and date, the one with the later time first
C19_Witness ==
    LET shows == heap[m_data].d.shows
    IN  /\ q.called
        /\ q.sortColumn = "SortTopic"
        /\ q.sortOrder = "SortDescending"
        /\ Len(q.id) = 3
        /\ StrLess(shows[q.id[1] + 1].topic, shows[q.id[2] + 1].topic)
        /\ shows[q.id[2] + 1].topic = shows[q.id[3] + 1].topic
        /\ shows[q.id[2] + 1].date = shows[q.id[3] + 1].date
        /\ shows[q.id[2] + 1].time > shows[q.id[3] + 1].time

\* C20: for sortColumn = date, time or duration, ids whose records have the
\* same value of that member are returned in the order of the candidates,
\* which is the ascending order of the ids.
C20_SortIsStable ==
    (q.called /\ q.sortColumn \in {"SortDate", "SortTime", "SortDuration"})
        => LET shows == heap[m_data].d.shows
               member == CASE q.sortColumn = "SortDate" -> "date"
                           [] q.sortColumn = "SortTime" -> "time"
                           [] OTHER -> "duration"
           IN  \A i, j \in 1..Len(q.id) :
                  (i < j /\ shows[q.id[i] + 1][member] = shows[q.id[j] + 1][member])
                      => q.id[i] < q.id[j]

\* C21: a destructor entered while a rebuild is in flight does not return
\* until the worker has: as long as the worker runs the Database is not
\* destroyed and keeps its snapshot; the Database is never destroyed while a
\* worker is in flight; while the destructor waits and after the Database is
\* destroyed no completion handler runs on it (no swap, no notification, no
\* timestamp), and after it is destroyed no worker writes the file.
C21_TeardownJoinsWorker ==
    /\ [](life = "destroyed" => (~InFlight /\ ~CompletionPending))
    /\ [][(life = "joining" /\ InFlight)
            => /\ life' = "joining"
               /\ m_data' = m_data
               /\ heap'[m_data] = heap[m_data]
               /\ heap[m_data].alloc]_vars
    /\ [][life # "alive"
            => /\ log'.updated = log.updated
               /\ log'.failedToUpdate = log.failedToUpdate
               /\ log'.setDatabaseUpdatedOn = log.setDatabaseUpdatedOn
               /\ log'.accepted = log.accepted
               /\ (life' # "destroyed" => m_data' = m_data)]_vars
    /\ [][life = "destroyed"
            => /\ file' = file
               /\ log' = log
               /\ m_update' = m_update
               /\ life' = "destroyed"]_vars

\* the destructor has been entered and waits while the worker of a full
\* update, which has parsed and saved two records, is about to commit, and
\* a reader holds a record of the current snapshot
C21_Witness ==
    /\ life = "joining"
    /\ m_update.stage = "committing"
    /\ m_update.kind = "FullUpdate"
    /\ m_update.fed = 2
    /\ held.ptr = m_data

\* C22: the record list the worker of a partial update has cloned holds the
\* result of every earlier rebuild that succeeded: when rebuilds have
\* succeeded before and none has failed, so that the file holds the records
\* of the last of them, the clone holds those records; and while the worker
\* is in flight the snapshot the clone was taken from is still the current
\* one.
C22_CloneOfLatestSuccess ==
    (m_update.kind = "PartialUpdate" /\ m_update.stage = "parsing" /\ m_update.fed = 0)
        => /\ m_update.base = heap[m_data].d.shows
           /\ (log.succeeded > 0 /\ log.failed = 0)
                 => (load(file).ok /\ SameRecords(m_update.base, load(file).shows))

\* no two records of shows have the same (title, url, channel, topic)
UniqueKeys(shows) ==
    \A i, j \in 1..Len(shows) : ShowKey(shows[i]) = ShowKey(shows[j]) => i = j

\* C23: a partial update over a snapshot without two records of one key
\* holds no two records of one key at any point of the merge, nor does the
\* snapshot it returns, also when the parser delivers one key twice; and each
\* incoming record either is appended, when no record of the clone has its
\* key, or takes the place of the first record of the clone with its key,
\* every other record staying as and where it is.
C23_PartialMergeKeepsKeysUnique ==
    /\ []((m_update.kind = "PartialUpdate" /\ UniqueKeys(m_update.base))
            => /\ m_update.transaction # Null
                     => UniqueKeys(heap[m_update.transaction].d.shows)
               /\ m_update.result # Null => UniqueKeys(heap[m_update.result].d.shows))
    /\ [][(m_update.kind = "PartialUpdate" /\ m_update.stage = "parsing"
              /\ m_update'.fed = m_update.fed + 1)
            => LET old == heap[m_update.transaction].d.shows
                   new == heap'[m_update.transaction].d.shows
                   x == m_update.data.shows[m_update.fed + 1]
                   same == {i \in 1..Len(old) : ShowKey(old[i]) = ShowKey(x)}
               IN  IF same = {}
                   THEN new = old \o <<x>>
                   ELSE /\ Len(new) = Len(old)
                        /\ \A i \in 1..Len(old) :
                              new[i] = IF i \in same /\ \A j \in same : i <= j
                                       THEN x ELSE old[i]]_vars

\* a partial update over two records of different keys, to which the parser
\* delivered two different records of one third key, has returned three
\* records, the later of the two among them and the earlier not
C23_Witness ==
    /\ m_update.kind = "PartialUpdate"
    /\ m_update.stage = "finished"
    /\ m_update.result # Null
    /\ Len(m_update.base) = 2
    /\ UniqueKeys(m_update.base)
    /\ Len(m_update.data.shows) = 2
    /\ m_update.data.shows[1] # m_update.data.shows[2]
    /\ ShowKey(m_update.data.shows[1]) = ShowKey(m_update.data.shows[2])
    /\ Len(heap[m_update.result].d.shows) = 3
    /\ Count(heap[m_update.result].d.shows, m_update.data.shows[2]) = 1
    /\ Count(heap[m_update.result].d.shows, m_update.data.shows[1]) = 0

====
